---- MODULE Spec2Model ----
(* Model of test-mcp-conversion.py: the loop that converts a Claude      *)
(* "mcpServers" document into an OpenCode "mcp" document, and the summary *)
(* printed afterwards.  Python dicts are functions whose DOMAIN is the    *)
(* set of keys present; the insertion-ordered dict opencode_config['mcp'] *)
(* is a sequence of [key, val] items; strings that the code edits         *)
(* character by character (server names) are sequences of characters.     *)
EXTENDS Integers, Sequences, FiniteSets, TLC

VARIABLES source, idx, mcp, stderr, stdout, pc

vars == <<source, idx, mcp, stderr, stdout, pc>>

(* ---------------------------------------------------------------- bounds *)
MaxServers == 3

(* ------------------------------------------------------------ input sets *)
EmptyDict == [k \in {} |-> ""]

ServerNames ==
  { <<"a", " ", "b">>, <<"a", "/", "b">>, <<"a", "_", "b">>,
    <<"c", " ", "d", "/", "e">> }

TypeValues == {"stdio", "sse", "http", "docker"}
CommandValues == {"", "npx"}
ArgsValues == { <<>>, <<"-y", "pkg">> }
UrlValues == {"", "https://h/sse"}
EnvValues == { EmptyDict, [k \in {"KEY"} |-> "v"] }

\* A key that may be missing from a dict: no binding, or one of vals.
OptField(k, vals) == { EmptyDict } \cup { [x \in {k} |-> v] : v \in vals }

ConfigsOver(types, commands, args, urls, envs) ==
  { t @@ c @@ a @@ u @@ e :
      t \in OptField("type", types), c \in OptField("command", commands),
      a \in OptField("args", args), u \in OptField("url", urls),
      e \in OptField("env", envs) }

\* Every combination of the optional fields of a server entry.
AllConfigs == ConfigsOver(TypeValues, CommandValues, ArgsValues, UrlValues, EnvValues)

\* The entries used in documents with several servers.
DocConfigs == ConfigsOver({"stdio", "sse", "docker"}, {"npx"}, {}, {}, {})

\* dict.items(): a sequence of (name, config) pairs with distinct names.
Documents(configs, n) ==
  { d \in [1..n -> [name : ServerNames, config : configs]] :
      \A i, j \in 1..n : i # j => d[i].name # d[j].name }

(* ------------------------------------------------------ python primitives *)
\* dict.get(k, default)
Get(d, k, default) == IF k \in DOMAIN d THEN d[k] ELSE default

\* d.get('type') == t, for a string t (a missing key gives None, never equal)
TypeIs(d, t) == "type" \in DOMAIN d /\ d["type"] = t

\* truth value of a dict: non-empty
Truthy(d) == DOMAIN d # {}

\* str.replace(old, new) for single characters
Replace(s, old, new) == [i \in 1..Len(s) |-> IF s[i] = old THEN new ELSE s[i]]

\* dict[k] = v on an insertion-ordered dict: an existing key keeps its place
IndexOfKey(d, k) == CHOOSE i \in 1..Len(d) : d[i].key = k

HasKey(d, k) == \E i \in 1..Len(d) : d[i].key = k

\* d[k]
DictGet(d, k) == d[IndexOfKey(d, k)].val

\* Variant: the document kept as a list of items, every write appended.
DictSetAppend(d, k, v) == Append(d, [key |-> k, val |-> v])

\* Variant: dict.update semantics, the fields of the old value kept.
DictSetMerge(d, k, v) ==
  IF HasKey(d, k)
    THEN [d EXCEPT ![IndexOfKey(d, k)] = [key |-> k, val |-> v @@ d[IndexOfKey(d, k)].val]]
    ELSE Append(d, [key |-> k, val |-> v])

\* Variant: an overwritten key is deleted and inserted again at the end.
DictSetMoveToEnd(d, k, v) ==
  Append(SelectSeq(d, LAMBDA item : item.key # k), [key |-> k, val |-> v])

DictSet(d, k, v) ==
  IF HasKey(d, k)
    THEN [d EXCEPT ![IndexOfKey(d, k)] = [key |-> k, val |-> v]]
    ELSE Append(d, [key |-> k, val |-> v])

(* ------------------------------------------------------- conversion loop *)
\* The if / elif / elif / else chain of the loop body.
\* Variant: the command test placed before the sse/http test.
ClassifyCommandFirst(server_config) ==
  IF TypeIs(server_config, "stdio") THEN "stdio"
  ELSE IF "command" \in DOMAIN server_config THEN "command"
  ELSE IF TypeIs(server_config, "sse") \/ TypeIs(server_config, "http") THEN "remote"
  ELSE "skip"

Classify(server_config) ==
  IF TypeIs(server_config, "stdio") THEN "stdio"
  ELSE IF TypeIs(server_config, "sse") \/ TypeIs(server_config, "http") THEN "remote"
  ELSE IF "command" \in DOMAIN server_config THEN "command"
  ELSE "skip"

\* Variant: servers created disabled.
NewServerDisabled == [enabled |-> FALSE]

NewServer == [enabled |-> TRUE]

CommandOf(server_config) ==
  <<Get(server_config, "command", "bun")>> \o Get(server_config, "args", <<>>)

BuildStdio(server_config) ==
  LET s == NewServer @@ [type |-> "local", command |-> CommandOf(server_config)]
  IN  IF "env" \in DOMAIN server_config /\ Truthy(server_config["env"])
        THEN s @@ [environment |-> server_config["env"]]
        ELSE s

\* Variant: a remote entry that also carries the source command.
BuildRemoteKeepCommand(server_config) ==
  IF "command" \in DOMAIN server_config
    THEN NewServer @@ [type |-> "remote", url |-> Get(server_config, "url", ""),
                       command |-> CommandOf(server_config)]
    ELSE NewServer @@ [type |-> "remote", url |-> Get(server_config, "url", "")]

BuildRemote(server_config) ==
  NewServer @@ [type |-> "remote", url |-> Get(server_config, "url", "")]

BuildCommandOnly(server_config) ==
  NewServer @@ [type |-> "local", command |-> CommandOf(server_config)]

OpencodeServer(server_config) ==
  CASE Classify(server_config) = "stdio" -> BuildStdio(server_config)
    [] Classify(server_config) = "remote" -> BuildRemote(server_config)
    [] Classify(server_config) = "command" -> BuildCommandOnly(server_config)

\* Variant: only the spaces replaced.
SanitizeSpacesOnly(server_name) == Replace(server_name, " ", "_")

Sanitize(server_name) == Replace(Replace(server_name, " ", "_"), "/", "_")

\* Variant: the notice names the sanitized name.
SkipNoticeSanitized(server_name) ==
  [skipping |-> Sanitize(server_name), reason |-> "cannot determine type"]

SkipNotice(server_name) == [skipping |-> server_name, reason |-> "cannot determine type"]

SummaryLines(d) == [i \in 1..Len(d) |-> [name |-> d[i].key, type |-> d[i].val.type]]

(* ----------------------------------------------------------------- state *)
InitState(docs) ==
  /\ source \in docs
  /\ idx = 0
  /\ mcp = <<>>
  /\ stderr = <<>>
  /\ stdout = <<>>
  /\ pc = "loop"

\* Documents of up to MaxServers servers.
Init == InitState(UNION { Documents(DocConfigs, n) : n \in 0..MaxServers })

\* Documents of one server, over every combination of its fields.
InitEntry == InitState(Documents(AllConfigs, 1))

\* One iteration of the for loop.
LoopBody ==
  /\ pc = "loop"
  /\ idx < Len(source)
  /\ LET server_name == source[idx + 1].name
         server_config == source[idx + 1].config
     IN  IF Classify(server_config) = "skip"
           THEN /\ stderr' = Append(stderr, SkipNotice(server_name))
                /\ UNCHANGED mcp
           ELSE /\ mcp' = DictSet(mcp, Sanitize(server_name), OpencodeServer(server_config))
                /\ UNCHANGED stderr
  /\ idx' = idx + 1
  /\ UNCHANGED <<source, stdout, pc>>

\* The prints after the loop: the document, then the summary.
PrintOutput ==
  /\ pc = "loop"
  /\ idx = Len(source)
  /\ stdout' = <<[config |-> mcp, count |-> Len(mcp), lines |-> SummaryLines(mcp)]>>
  /\ pc' = "done"
  /\ UNCHANGED <<source, idx, mcp, stderr>>

Next == LoopBody \/ PrintOutput

Spec == Init /\ [][Next]_vars

SpecEntry == InitEntry /\ [][Next]_vars

(* ------------------------------------------------- vocabulary of the claims *)
\* The entry handled by the most recent iteration, and what is stored for it.
LastName == source[idx].name

LastConfig == source[idx].config

LastKey == Sanitize(LastName)

LastStored == DictGet(mcp, LastKey)

HasField(cfg, k) == k \in DOMAIN cfg

TypeIn(cfg, ts) == HasField(cfg, "type") /\ cfg["type"] \in ts

\* No type "stdio", "sse" or "http", and no command.
Unclassifiable(cfg) == ~TypeIn(cfg, {"stdio", "sse", "http"}) /\ ~HasField(cfg, "command")

\* s with each space and each '/' replaced by '_', character by character.
IsSanitizedFormOf(k, s) ==
  /\ Len(k) = Len(s)
  /\ \A j \in 1..Len(s) : k[j] = (IF s[j] \in {" ", "/"} THEN "_" ELSE s[j])

\* Source positions, among the first n, whose entry is converted under key k.
Writers(k, n) ==
  { m \in 1..n : ~Unclassifiable(source[m].config) /\ IsSanitizedFormOf(k, source[m].name) }

Max(S) == CHOOSE m \in S : \A o \in S : o <= m

Min(S) == CHOOSE m \in S : \A o \in S : m <= o

Classified(n) == { m \in 1..n : ~Unclassifiable(source[m].config) }

\* Two converted source entries share a target key.
Collision(n) ==
  \E m, o \in Classified(n) : m < o /\ Sanitize(source[m].name) = Sanitize(source[o].name)

(* ------------------------------------------------------------------ C1 *)
\* C1: an entry is classified by priority: type "stdio" gives a local entry;
\* otherwise type "sse" or "http" gives a remote entry, even with a command;
\* otherwise a present command gives a local entry, whatever the type;
\* otherwise nothing is stored for it and it is reported as skipped.
C1_ClassificationPriority ==
  idx >= 1 =>
    IF TypeIn(LastConfig, {"stdio"})
      THEN HasKey(mcp, LastKey) /\ LastStored.type = "local" /\ stderr = <<>>
    ELSE IF TypeIn(LastConfig, {"sse", "http"})
      THEN HasKey(mcp, LastKey) /\ LastStored.type = "remote" /\ stderr = <<>>
    ELSE IF HasField(LastConfig, "command")
      THEN HasKey(mcp, LastKey) /\ LastStored.type = "local" /\ stderr = <<>>
    ELSE mcp = <<>> /\ Len(stderr) = 1 /\ stderr[1].skipping = LastName

C1_Witness ==
  /\ pc = "done"
  /\ TypeIn(source[1].config, {"http"})
  /\ HasField(source[1].config, "command")
  /\ LastStored.type = "remote"

(* ------------------------------------------------------------------ C2 *)
\* C2: for type "stdio" the target is local and its command is
\* [executable] + args, the executable being the source command, or "bun"
\* when the command is absent or empty; the command sequence is never empty
\* and never starts with the empty string.
C2_StdioCommand ==
  (idx >= 1 /\ TypeIn(LastConfig, {"stdio"})) =>
    LET executable == IF HasField(LastConfig, "command") /\ LastConfig["command"] # ""
                        THEN LastConfig["command"] ELSE "bun"
        args == IF HasField(LastConfig, "args") THEN LastConfig["args"] ELSE <<>>
    IN  /\ LastStored.type = "local"
        /\ LastStored.command = <<executable>> \o args
        /\ LastStored.command # <<>>
        /\ LastStored.command[1] # ""

(* ------------------------------------------------------------------ C3 *)
\* C3: a local target entry, from the "stdio" branch or from the
\* command-only fallback, has an environment field exactly when the source
\* env is present and non-empty, and then it equals the source env.
C3_EnvironmentIffEnv ==
  (idx >= 1 /\ HasKey(mcp, LastKey) /\ LastStored.type = "local") =>
    /\ HasField(LastStored, "environment")
         <=> (HasField(LastConfig, "env") /\ LastConfig["env"] # EmptyDict)
    /\ HasField(LastStored, "environment")
         => LastStored["environment"] = LastConfig["env"]

(* ------------------------------------------------------------------ C4 *)
\* C4: for type "sse" or "http" the target is remote, its url is the source
\* url, or "" when there is none, and it has no command and no environment
\* field, whatever command, args or env the source has.
C4_RemoteEntry ==
  (idx >= 1 /\ TypeIn(LastConfig, {"sse", "http"})) =>
    /\ HasKey(mcp, LastKey)
    /\ LastStored.type = "remote"
    /\ LastStored.url = (IF HasField(LastConfig, "url") THEN LastConfig["url"] ELSE "")
    /\ ~HasField(LastStored, "command")
    /\ ~HasField(LastStored, "environment")

C4_Witness ==
  /\ pc = "done"
  /\ TypeIn(source[1].config, {"sse"})
  /\ ~HasField(source[1].config, "url")
  /\ HasField(source[1].config, "command")
  /\ HasField(source[1].config, "args")
  /\ HasField(source[1].config, "env") /\ source[1].config["env"] # EmptyDict
  /\ LastStored.url = ""

(* ------------------------------------------------------------------ C5 *)
\* C5: an unclassifiable entry is skipped without stopping the run: it adds
\* no key to mcp, exactly one skip notice carries its original name, every
\* classifiable entry handled so far is in mcp, and the prints happen only
\* after every entry has been handled.
C5_SkipContinues ==
  /\ \A n \in 1..idx :
       IF Unclassifiable(source[n].config)
         THEN Cardinality({ i \in 1..Len(stderr) : stderr[i].skipping = source[n].name }) = 1
         ELSE \E i \in 1..Len(mcp) : IsSanitizedFormOf(mcp[i].key, source[n].name)
  /\ Len(stderr) = idx - Cardinality(Classified(idx))
  /\ \A i \in 1..Len(mcp) : Writers(mcp[i].key, idx) # {}
  /\ \A i, j \in 1..Len(mcp) : mcp[i].key = mcp[j].key => i = j
  /\ pc = "done" => idx = Len(source)

C5_Witness ==
  /\ pc = "done"
  /\ Len(source) = 3
  /\ ~Unclassifiable(source[1].config)
  /\ Unclassifiable(source[2].config)
  /\ ~Unclassifiable(source[3].config)
  /\ Len(mcp) = 2
  /\ Len(stderr) = 1

(* ------------------------------------------------------------------ C6 *)
\* C6: in every state, and in the printed document, every entry of mcp is
\* enabled and has type "local" or "remote".
C6_AlwaysEnabled ==
  /\ \A i \in 1..Len(mcp) :
       mcp[i].val.enabled = TRUE /\ mcp[i].val.type \in {"local", "remote"}
  /\ pc = "done" =>
       \A i \in 1..Len(stdout[1].config) :
         /\ stdout[1].config[i].val.enabled = TRUE
         /\ stdout[1].config[i].val.type \in {"local", "remote"}

C6_Witness ==
  /\ pc = "done"
  /\ \E i, j \in 1..Len(mcp) : mcp[i].val.type = "local" /\ mcp[j].val.type = "remote"

(* ------------------------------------------------------------------ C7 *)
\* C7: in every state, every key of mcp is the sanitized form of the name of
\* an already handled, non-skipped source entry, and holds no space and no '/'.
C7_KeysSanitized ==
  \A i \in 1..Len(mcp) :
    /\ \E n \in 1..idx :
         ~Unclassifiable(source[n].config) /\ IsSanitizedFormOf(mcp[i].key, source[n].name)
    /\ \A j \in 1..Len(mcp[i].key) : mcp[i].key[j] \notin {" ", "/"}

C7_Witness ==
  /\ HasKey(mcp, <<"c", "_", "d", "_", "e">>)
  /\ HasKey(mcp, <<"a", "_", "b">>)
  /\ \E n \in 1..idx : source[n].name = <<"a", "/", "b">> /\ ~Unclassifiable(source[n].config)

C9_Stored ==
  \A i \in 1..Len(mcp) :
    LET cfg == source[Max(Writers(mcp[i].key, idx))].config
    IN  /\ mcp[i].val = OpencodeServer(cfg)
        /\ DOMAIN mcp[i].val =
             IF TypeIn(cfg, {"sse", "http"}) THEN {"enabled", "type", "url"}
             ELSE IF TypeIn(cfg, {"stdio"}) /\ HasField(cfg, "env") /\ cfg["env"] # EmptyDict
               THEN {"enabled", "type", "command", "environment"}
             ELSE {"enabled", "type", "command"}

C9_Frame ==
  idx' = idx + 1 =>
    \A i \in 1..Len(mcp) :
      mcp[i].key # Sanitize(source[idx'].name) => (Len(mcp') >= i /\ mcp'[i] = mcp[i])

C9_LastWriteWins == []C9_Stored /\ [][C9_Frame]_vars

C9_Witness ==
  /\ pc = "done"
  /\ Len(source) = 3
  /\ Len(mcp) = 2
  /\ Sanitize(source[1].name) = Sanitize(source[3].name)
  /\ TypeIn(source[1].config, {"stdio"})
  /\ HasField(source[1].config, "command")
  /\ TypeIn(source[3].config, {"sse"})
  /\ mcp[1].val = [enabled |-> TRUE, type |-> "remote", url |-> ""]

(* ----------------------------------------------------------------- C10 *)
\* C10: the items of mcp appear in the same relative order as the source
\* entries they were built from, also with skipped entries and with several
\* names that sanitize to one key.
C10_SourceOrder ==
  \A p, q \in 1..Len(mcp) :
    p < q => Max(Writers(mcp[p].key, idx)) < Max(Writers(mcp[q].key, idx))

\* C10: the keys of mcp appear in the order of the first converted source
\* entry of each key (an overwritten key keeps its place), so the items are
\* in the order of the source entries they were built from whenever no two
\* converted names sanitize to one key; the summary lists them in mcp's order.
C10_FirstWriteOrder ==
  /\ \A p, q \in 1..Len(mcp) :
       p < q => Min(Writers(mcp[p].key, idx)) < Min(Writers(mcp[q].key, idx))
  /\ ~Collision(idx) => C10_SourceOrder
  /\ pc = "done" =>
       \A i \in 1..Len(mcp) : stdout[1].lines[i].name = mcp[i].key

C10_Witness ==
  /\ pc = "done"
  /\ Len(mcp) = 2
  /\ Max(Writers(mcp[1].key, idx)) > Max(Writers(mcp[2].key, idx))

====
